---- MODULE Spec2Model ----
(***************************************************************************)
(* A model of contrib/llvm/lib/Analysis/RegionPrinter.cpp: the edge        *)
(* classifier getEdgeAttributes and the cluster emitter                    *)
(* printRegionCluster / addCustomGraphFeatures of DOTGraphTraits           *)
(* <RegionInfo*>, run over the region tree of one function.                *)
(*                                                                         *)
(* One behaviour is one render (GraphWriter::writeGraph): first the node   *)
(* pass, in which the writer asks getEdgeAttributes about edges, then      *)
(* addCustomGraphFeatures, which writes the palette line and the clusters. *)
(* The region tree is the input; it is drawn in Init and never written.    *)
(***************************************************************************)
EXTENDS Integers, Sequences, FiniteSets

\* Largest number of regions of a freely shaped region tree.
MaxRegions == 3
\* Largest number of basic blocks of a function with a freely shaped tree.
MaxBlocks == 3
\* Largest number of regions of a tree that is one chain of nested regions
\* (deep enough for the palette index to wrap around).
MaxChain == 7

\* The null Region pointer.
Null == 0

VARIABLES
    nr,                 \* number of regions; the regions are 1..nr
    nb,                 \* number of basic blocks; the blocks are 1..nb
    parent,             \* Region::getParent, Null for the top-level region
    entry,              \* Region::getEntry
    regionFor,          \* RegionInfo::getRegionFor (the BBtoRegion map)
    onlySimpleRegions,  \* the -only-simple-regions option
    phase,              \* "nodes", "clusters" or "done"
    epc,                \* getEdgeAttributes: "idle", "while" or "returned"
    srcNode,            \* getEdgeAttributes: its srcNode argument
    destNode,           \* getEdgeAttributes: *CI
    R,                  \* getEdgeAttributes: the local R
    attr,               \* getEdgeAttributes: the string returned, or "none"
    climbs,             \* iterations of the while loop taken by this call
    err,                \* TRUE once a null Region pointer was dereferenced
    stack,              \* printRegionCluster: the activation records
    O,                  \* the lines written to the output stream
    simpleSeen          \* what R->isSimple() returned where it was called

tree == <<nr, nb, parent, entry, regionFor, onlySimpleRegions>>
edge == <<epc, srcNode, destNode, R, attr, climbs, err>>
emit == <<stack, O, simpleSeen>>
vars == <<nr, nb, parent, entry, regionFor, onlySimpleRegions, phase,
          epc, srcNode, destNode, R, attr, climbs, err, stack, O, simpleSeen>>

----------------------------------------------------------------------------
(* The region tree, as the region analysis hands it over.                  *)

Regions == 1..nr
Blocks == 1..nb
TopLevelRegion == 1

\* r is a or a descendant of a, in a tree given by the parent function p.
RECURSIVE InSubtree(_, _, _)
InSubtree(p, a, r) ==
    IF r = a THEN TRUE
    ELSE IF r = Null \/ p[r] = Null THEN FALSE
    ELSE InSubtree(p, a, p[r])

\* Region::contains(BasicBlock): the block lies in r or in a region below r.
contains(r, b) == InSubtree(parent, r, regionFor[b])

\* Region::getDepth: the number of ancestors.
RECURSIVE getDepth(_)
getDepth(r) == IF parent[r] = Null THEN 0 ELSE 1 + getDepth(parent[r])

\* The elements of a finite set of numbers, in ascending order.
RECURSIVE SortedSeq(_)
SortedSeq(S) ==
    IF S = {} THEN <<>>
    ELSE LET m == CHOOSE x \in S : \A y \in S : x <= y
         IN <<m>> \o SortedSeq(S \ {m})

\* Region::begin()..end(): the child regions, in child-list order.
children(r) == SortedSeq({c \in Regions : parent[c] = r})

\* Region::block_begin()..block_end(): every block contained in the region,
\* the entry block first (the iterator walks the region from its entry).
blocks(r) == <<entry[r]>> \o SortedSeq({b \in Blocks : contains(r, b)} \ {entry[r]})

\* The parent function of a tree of n regions: region 1 is the only root.
\* Regions are numbered parents first, siblings in child-list order.
IsTree(n, p) ==
    /\ p[1] = Null
    /\ \A r \in 2..n : p[r] \in 1..(r - 1)

\* Blocks are numbered by the region that owns them (the code sees neither
\* numbering, it only compares identities).
OwnersInOrder(m, rf) == \A b \in 2..m : rf[b - 1] <= rf[b]

\* Every region contains its entry block, and a region that contains the
\* entry block of its parent is entered through that block: the entry of a
\* single-entry region is the only way into it.
EntriesFit(n, p, e, rf) ==
    /\ \A r \in 1..n : InSubtree(p, r, rf[e[r]])
    /\ \A r \in 2..n : InSubtree(p, r, rf[e[p[r]]]) => e[r] = e[p[r]]

\* The chain of n nested regions around one block.
ChainParent(n) == [r \in 1..n |-> r - 1]

\* The nodes of the rendered graph: a basic block or a collapsed subregion.
BBNode(b) == <<"bb", b>>
SubRegionNode(r) == <<"region", r>>
NoNode == <<"none", 0>>
isSubRegion(n) == n[1] = "region"
getNodeAs(n) == n[2]
Nodes == {BBNode(b) : b \in Blocks} \cup {SubRegionNode(r) : r \in Regions \ {TopLevelRegion}}

----------------------------------------------------------------------------
Init ==
    /\ \/ \E n \in 1..MaxRegions, m \in 1..MaxBlocks :
            /\ nr = n
            /\ nb = m
            /\ parent \in [1..n -> 0..(n - 1)]
            /\ IsTree(n, parent)
            /\ regionFor \in [1..m -> 1..n]
            /\ OwnersInOrder(m, regionFor)
            /\ entry \in [1..n -> 1..m]
            /\ EntriesFit(n, parent, entry, regionFor)
       \/ \E n \in (MaxRegions + 1)..MaxChain :
            /\ nr = n
            /\ nb = 1
            /\ parent = ChainParent(n)
            /\ regionFor = [b \in 1..1 |-> n]
            /\ entry = [r \in 1..n |-> 1]
    /\ onlySimpleRegions \in BOOLEAN
    /\ phase = "nodes"
    /\ epc = "idle"
    /\ srcNode = NoNode
    /\ destNode = NoNode
    /\ R = Null
    /\ attr = "none"
    /\ climbs = 0
    /\ err = FALSE
    /\ stack = <<>>
    /\ O = <<>>
    /\ simpleSeen = [r \in 1..nr |-> "unread"]

----------------------------------------------------------------------------
(* getEdgeAttributes(srcNode, CI, RI)                                      *)

\* The loop condition without the test for a parent: while (R).
LoopContinues_NoParentGuard ==
    /\ R # Null
    /\ parent[R] = Null \/ entry[parent[R]] = getNodeAs(destNode)

\* The loop condition looking at the entry of R instead of its parent's.
LoopContinues_OwnEntry ==
    /\ R # Null
    /\ parent[R] # Null
    /\ entry[R] = getNodeAs(destNode)

\* The condition under which the while loop takes another iteration.
LoopContinues ==
    /\ R # Null
    /\ parent[R] # Null
    /\ entry[parent[R]] = getNodeAs(destNode)

\* Lines 76-79: an edge that touches a subregion node returns "" at once.
GEA_SubRegion ==
    /\ phase = "nodes"
    /\ epc = "idle"
    /\ \E s \in Nodes, d \in Nodes :
          /\ isSubRegion(s) \/ isSubRegion(d)
          /\ srcNode' = s
          /\ destNode' = d
    /\ R' = Null
    /\ attr' = ""
    /\ climbs' = 0
    /\ epc' = "returned"
    /\ UNCHANGED <<err, phase, tree, emit>>

\* The lookup started from the source block: getRegionFor(srcBB).
GEA_Lookup_FromSrc ==
    /\ phase = "nodes"
    /\ epc = "idle"
    /\ \E s \in Nodes, d \in Nodes :
          /\ ~(isSubRegion(s) \/ isSubRegion(d))
          /\ srcNode' = s
          /\ destNode' = d
          /\ R' = regionFor[getNodeAs(s)]
    /\ attr' = "none"
    /\ climbs' = 0
    /\ epc' = "while"
    /\ UNCHANGED <<err, phase, tree, emit>>

\* Lines 76-85: both ends are blocks; R starts at the region of destBB.
GEA_Lookup ==
    /\ phase = "nodes"
    /\ epc = "idle"
    /\ \E s \in Nodes, d \in Nodes :
          /\ ~(isSubRegion(s) \/ isSubRegion(d))
          /\ srcNode' = s
          /\ destNode' = d
          /\ R' = regionFor[getNodeAs(d)]
    /\ attr' = "none"
    /\ climbs' = 0
    /\ epc' = "while"
    /\ UNCHANGED <<err, phase, tree, emit>>

\* Lines 87-89: the parent's entry is destBB, climb to the parent.
GEA_Climb ==
    /\ epc = "while"
    /\ LoopContinues
    /\ R' = parent[R]
    /\ climbs' = climbs + 1
    /\ UNCHANGED <<epc, srcNode, destNode, attr, err, phase, tree, emit>>

\* The final test without R->contains(srcBB).
GEA_Test_NoContains ==
    /\ epc = "while"
    /\ ~LoopContinues
    /\ IF R = Null
       THEN /\ err' = TRUE
            /\ attr' \in {"", "constraint=false"}
       ELSE /\ err' = err
            /\ attr' = IF entry[R] = getNodeAs(destNode)
                       THEN "constraint=false"
                       ELSE ""
    /\ epc' = "returned"
    /\ UNCHANGED <<srcNode, destNode, R, climbs, phase, tree, emit>>

\* The final test without R->getEntry() == destBB.
GEA_Test_NoEntry ==
    /\ epc = "while"
    /\ ~LoopContinues
    /\ IF R = Null
       THEN /\ err' = TRUE
            /\ attr' \in {"", "constraint=false"}
       ELSE /\ err' = err
            /\ attr' = IF contains(R, getNodeAs(srcNode))
                       THEN "constraint=false"
                       ELSE ""
    /\ epc' = "returned"
    /\ UNCHANGED <<srcNode, destNode, R, climbs, phase, tree, emit>>

\* Lines 87-96: the loop is left (no parent, or the break) and R is tested.
GEA_Test ==
    /\ epc = "while"
    /\ ~LoopContinues
    /\ IF R = Null
       THEN /\ err' = TRUE
            /\ attr' \in {"", "constraint=false"}
       ELSE /\ err' = err
            /\ attr' = IF /\ entry[R] = getNodeAs(destNode)
                          /\ contains(R, getNodeAs(srcNode))
                       THEN "constraint=false"
                       ELSE ""
    /\ epc' = "returned"
    /\ UNCHANGED <<srcNode, destNode, R, climbs, phase, tree, emit>>

\* GraphWriter::writeEdge: the caller takes the returned string, and the
\* activation of getEdgeAttributes is gone.
WriteEdge ==
    /\ epc = "returned"
    /\ epc' = "idle"
    /\ srcNode' = NoNode
    /\ destNode' = NoNode
    /\ R' = Null
    /\ attr' = "none"
    /\ climbs' = 0
    /\ UNCHANGED <<err, phase, tree, emit>>

----------------------------------------------------------------------------
(* addCustomGraphFeatures(RI, GW) and printRegionCluster(R, GW, depth)     *)

\* An activation record of printRegionCluster: the region, the depth
\* argument, the next statement, and the positions of the two loops.
Frame(r, d) == [R |-> r, depth |-> d, pc |-> "open", ci |-> 1, bi |-> 1]

Top == stack[Len(stack)]
SetTop(f) == [stack EXCEPT ![Len(stack)] = f]
Running(pc) == phase = "clusters" /\ stack # <<>> /\ Top.pc = pc

\* The color index with the remainder taken of the factor only:
\* depth * (2 % 12) + 1.
FilledColor_FactorOnly(r) == (getDepth(r) * (2 % 12)) + 1

\* The color index written for a filled and for a solid cluster.
FilledColor(r) == ((getDepth(r) * 2) % 12) + 1
SolidColor(r) == ((getDepth(r) * 2) % 12) + 2

\* The call for the top-level region without the palette line before it.
addCustomGraphFeatures_NoPalette ==
    /\ phase = "nodes"
    /\ epc = "idle"
    /\ O' = <<>>
    /\ stack' = <<Frame(TopLevelRegion, 4)>>
    /\ phase' = "clusters"
    /\ UNCHANGED <<simpleSeen, tree, edge>>

\* Lines 136-138: the palette line, then the call for the top-level region.
addCustomGraphFeatures ==
    /\ phase = "nodes"
    /\ epc = "idle"
    /\ O' = <<[k |-> "colorscheme", v |-> "paired12"]>>
    /\ stack' = <<Frame(TopLevelRegion, 4)>>
    /\ phase' = "clusters"
    /\ UNCHANGED <<simpleSeen, tree, edge>>

\* Lines 104-105: "subgraph cluster_<R> {".
PRC_Open ==
    /\ Running("open")
    /\ O' = Append(O, [k |-> "subgraph", ind |-> 2 * Top.depth, v |-> Top.R])
    /\ stack' = SetTop([Top EXCEPT !.pc = "label"])
    /\ UNCHANGED <<simpleSeen, phase, tree, edge>>

\* Line 106: the empty label.
PRC_Label ==
    /\ Running("label")
    /\ O' = Append(O, [k |-> "label", ind |-> 2 * (Top.depth + 1), v |-> ""])
    /\ stack' = SetTop([Top EXCEPT !.pc = "style"])
    /\ UNCHANGED <<simpleSeen, phase, tree, edge>>

\* Lines 108-111: the option is off (isSimple is not called), or the
\* region is simple.
PRC_StyleFilled ==
    /\ Running("style")
    /\ \/ ~onlySimpleRegions /\ UNCHANGED simpleSeen
       \/ onlySimpleRegions /\ simpleSeen' = [simpleSeen EXCEPT ![Top.R] = "simple"]
    /\ O' = O \o << [k |-> "style", ind |-> 2 * (Top.depth + 1), v |-> "filled"],
                    [k |-> "color", ind |-> 2 * (Top.depth + 1), v |-> FilledColor(Top.R)] >>
    /\ stack' = SetTop([Top EXCEPT !.pc = "body"])
    /\ UNCHANGED <<phase, tree, edge>>

\* Lines 113-116: the option is on and the region is not simple.
PRC_StyleSolid ==
    /\ Running("style")
    /\ onlySimpleRegions
    /\ simpleSeen' = [simpleSeen EXCEPT ![Top.R] = "notsimple"]
    /\ O' = O \o << [k |-> "style", ind |-> 2 * (Top.depth + 1), v |-> "solid"],
                    [k |-> "color", ind |-> 2 * (Top.depth + 1), v |-> SolidColor(Top.R)] >>
    /\ stack' = SetTop([Top EXCEPT !.pc = "body"])
    /\ UNCHANGED <<phase, tree, edge>>

\* The loop over the children calling for *R->begin() every time.
PRC_Recurse_FirstChild ==
    /\ Running("body")
    /\ Top.ci <= Len(children(Top.R))
    /\ stack' = Append(SetTop([Top EXCEPT !.ci = @ + 1]),
                       Frame(children(Top.R)[1], Top.depth + 1))
    /\ UNCHANGED <<O, simpleSeen, phase, tree, edge>>

\* Lines 119-120: the call for the next child region, at depth + 1.
PRC_Recurse ==
    /\ Running("body")
    /\ Top.ci <= Len(children(Top.R))
    /\ stack' = Append(SetTop([Top EXCEPT !.ci = @ + 1]),
                       Frame(children(Top.R)[Top.ci], Top.depth + 1))
    /\ UNCHANGED <<O, simpleSeen, phase, tree, edge>>

\* The block the second loop is at.
CurBlock == blocks(Top.R)[Top.bi]
InBlockLoop ==
    /\ Running("body")
    /\ Top.ci > Len(children(Top.R))
    /\ Top.bi <= Len(blocks(Top.R))

\* The block loop running ahead of the loop over the children.
PRC_BlockRef_BeforeChildren ==
    /\ Running("body")
    /\ Top.bi <= Len(blocks(Top.R))
    /\ regionFor[CurBlock] = Top.R
    /\ O' = Append(O, [k |-> "node", ind |-> 2 * (Top.depth + 1), v |-> BBNode(CurBlock)])
    /\ stack' = SetTop([Top EXCEPT !.bi = @ + 1])
    /\ UNCHANGED <<simpleSeen, phase, tree, edge>>

\* Lines 124-129: the block belongs to R itself, its node is referenced.
PRC_BlockRef ==
    /\ InBlockLoop
    /\ regionFor[CurBlock] = Top.R
    /\ O' = Append(O, [k |-> "node", ind |-> 2 * (Top.depth + 1), v |-> BBNode(CurBlock)])
    /\ stack' = SetTop([Top EXCEPT !.bi = @ + 1])
    /\ UNCHANGED <<simpleSeen, phase, tree, edge>>

\* The block loop without the test getRegionFor(*BI) == R: a block of a
\* region below R is referenced as well.
PRC_BlockSkip_AlwaysRef ==
    /\ InBlockLoop
    /\ regionFor[CurBlock] # Top.R
    /\ O' = Append(O, [k |-> "node", ind |-> 2 * (Top.depth + 1), v |-> BBNode(CurBlock)])
    /\ stack' = SetTop([Top EXCEPT !.bi = @ + 1])
    /\ UNCHANGED <<simpleSeen, phase, tree, edge>>

\* Lines 124-126: the block belongs to a region below R, nothing is written.
PRC_BlockSkip ==
    /\ InBlockLoop
    /\ regionFor[CurBlock] # Top.R
    /\ stack' = SetTop([Top EXCEPT !.bi = @ + 1])
    /\ UNCHANGED <<O, simpleSeen, phase, tree, edge>>

\* Line 131: "}", and the return to the caller.
PRC_Close ==
    /\ Running("body")
    /\ Top.ci > Len(children(Top.R))
    /\ Top.bi > Len(blocks(Top.R))
    /\ O' = Append(O, [k |-> "close", ind |-> 2 * Top.depth, v |-> ""])
    /\ stack' = SubSeq(stack, 1, Len(stack) - 1)
    /\ phase' = IF Len(stack) = 1 THEN "done" ELSE phase
    /\ UNCHANGED <<simpleSeen, tree, edge>>

Next ==
    \/ GEA_SubRegion
    \/ GEA_Lookup
    \/ GEA_Climb
    \/ GEA_Test
    \/ WriteEdge
    \/ addCustomGraphFeatures
    \/ PRC_Open
    \/ PRC_Label
    \/ PRC_StyleFilled
    \/ PRC_StyleSolid
    \/ PRC_Recurse
    \/ PRC_BlockRef
    \/ PRC_BlockSkip
    \/ PRC_Close

Spec == Init /\ [][Next]_vars
----------------------------------------------------------------------------
(* Reading the output and the tree back, for the properties below.         *)

\* For every line of O, the innermost cluster that is open just before the
\* line is written (Null when none is): one pass with the stack of open
\* clusters, "subgraph" pushing and "}" popping.
RECURSIVE EnclFrom(_, _)
EnclFrom(i, st) ==
    IF i > Len(O) THEN <<>>
    ELSE LET top == IF st = <<>> THEN Null ELSE st[Len(st)]
             st2 == CASE O[i].k = "subgraph" -> Append(st, O[i].v)
                      [] O[i].k = "close" ->
                            IF st = <<>> THEN st ELSE SubSeq(st, 1, Len(st) - 1)
                      [] OTHER -> st
         IN <<top>> \o EnclFrom(i + 1, st2)
Encl == EnclFrom(1, <<>>)

Lines(kind) == {i \in DOMAIN O : O[i].k = kind}

\* The depth of a region in the tree: how many regions lie strictly above it.
TreeDepth(r) == Cardinality({a \in Regions : a # r /\ InSubtree(parent, a, r)})

\* The position of x in the sequence s, 0 when it is not there.
IndexIn(s, x) ==
    IF \E j \in DOMAIN s : s[j] = x THEN CHOOSE j \in DOMAIN s : s[j] = x ELSE 0

BlockEdge == ~isSubRegion(srcNode) /\ ~isSubRegion(destNode)
Returned == epc = "returned"
srcBB == getNodeAs(srcNode)
destBB == getNodeAs(destNode)

----------------------------------------------------------------------------
\* C1: Partition of block references. Every "Node<id>" line names a block
\* whose regionFor is the cluster the line is written in, no block is named
\* by two lines, and when the render has finished every block of the
\* function is named by a line.
C1_Partition ==
    LET e == Encl IN
    /\ \A i \in Lines("node") : e[i] = regionFor[getNodeAs(O[i].v)]
    /\ \A i \in Lines("node"), j \in Lines("node") : O[i].v = O[j].v => i = j
    /\ phase = "done" => \A b \in Blocks : \E i \in Lines("node") : O[i].v = BBNode(b)

\* A finished render of a tree in which a region and one of its children
\* both own blocks.
C1_Witness ==
    /\ phase = "done"
    /\ \E b \in Blocks, c \in Blocks :
          /\ regionFor[c] # TopLevelRegion
          /\ parent[regionFor[c]] = regionFor[b]

\* Line i is the last line of the part of cluster r written before its own
\* block references: its color line when r has no child, else the "}" of
\* its last child.
EndsHead(e, i, r) ==
    LET ch == children(r) IN
    IF ch = <<>> THEN O[i].k = "color" /\ e[i] = r
    ELSE O[i].k = "close" /\ e[i] = ch[Len(ch)]

\* C2: Emission order inside one cluster. Every line is written right after
\* the line the order open, label, style, color, children in child-list
\* order (each complete), own block references, close puts before it; a
\* "}" always closes an open cluster; a finished render ends with the "}"
\* of the top-level cluster.
C2_EmissionOrder ==
    LET e == Encl IN
    /\ \A i \in DOMAIN O :
          CASE O[i].k = "colorscheme" -> TRUE
            [] O[i].k = "subgraph" ->
                  IF e[i] = Null THEN \A j \in 1..(i - 1) : O[j].k = "colorscheme"
                  ELSE LET ch == children(e[i])
                           n == IndexIn(ch, O[i].v)
                       IN /\ n >= 1
                          /\ IF n = 1
                             THEN O[i - 1].k = "color" /\ e[i - 1] = e[i]
                             ELSE O[i - 1].k = "close" /\ e[i - 1] = ch[n - 1]
            [] O[i].k = "label" -> O[i - 1].k = "subgraph" /\ O[i - 1].v = e[i]
            [] O[i].k = "style" -> O[i - 1].k = "label" /\ e[i - 1] = e[i]
            [] O[i].k = "color" -> O[i - 1].k = "style" /\ e[i - 1] = e[i]
            [] O[i].k = "node" ->
                  /\ e[i] # Null
                  /\ \/ O[i - 1].k = "node" /\ e[i - 1] = e[i]
                     \/ EndsHead(e, i - 1, e[i])
            [] O[i].k = "close" ->
                  /\ e[i] # Null
                  /\ \/ O[i - 1].k = "node" /\ e[i - 1] = e[i]
                     \/ EndsHead(e, i - 1, e[i])
    /\ phase = "done" => O[Len(O)].k = "close" /\ e[Len(O)] = TopLevelRegion

\* A finished render of a tree whose top-level region has two children and
\* owns a block itself.
C2_Witness ==
    /\ phase = "done"
    /\ Len(children(TopLevelRegion)) >= 2
    /\ \E b \in Blocks : regionFor[b] = TopLevelRegion

\* C3: Back-edge suppression. When getEdgeAttributes has returned for a
\* block-to-block edge (B, H) and some region has entry block H and
\* contains B, the returned string is "constraint=false".
C3_BackEdge ==
    (Returned /\ BlockEdge /\ \E L \in Regions : entry[L] = destBB /\ contains(L, srcBB))
        => attr = "constraint=false"

\* The back edge B -> H of a loop region below the top-level region, B and
\* H different blocks.
C3_Witness ==
    /\ Returned /\ BlockEdge
    /\ srcBB # destBB
    /\ \E L \in Regions \ {TopLevelRegion} : entry[L] = destBB /\ contains(L, srcBB)
    /\ attr = "constraint=false"

\* C4: Forward edges stay constraining. When getEdgeAttributes has returned
\* for a block-to-block edge (H, B), the returned string is empty if some
\* region has entry H and contains B # H, and also if B is not the entry
\* block of any region that contains H.
C4_ForwardEdge ==
    (Returned /\ BlockEdge) =>
        /\ (\E L \in Regions : entry[L] = srcBB /\ destBB # srcBB /\ contains(L, destBB))
              => attr = ""
        /\ (~ \E X \in Regions : entry[X] = destBB /\ contains(X, srcBB))
              => attr = ""

\* The forward edge H -> B inside a loop region with entry H, where B is
\* itself the entry block of a region.
C4_Witness ==
    /\ Returned /\ BlockEdge
    /\ srcBB # destBB
    /\ \E L \in Regions : entry[L] = srcBB /\ contains(L, destBB)
    /\ \E X \in Regions : entry[X] = destBB
    /\ attr = ""

\* C5: Style and color policy. The color line of the cluster of a region of
\* tree depth d reads ((d*2) mod 12) + 1 after "style = filled" when the
\* option is off or the region is simple, and ((d*2) mod 12) + 2 after
\* "style = solid" otherwise; the index lies in 1..12, odd when filled and
\* even when solid.
C5_StyleColor ==
    LET e == Encl IN
    \A i \in Lines("color") :
        LET d == TreeDepth(e[i])
            style == O[i - 1]
        IN /\ style.k = "style"
           /\ IF ~onlySimpleRegions \/ simpleSeen[e[i]] = "simple"
              THEN style.v = "filled" /\ O[i].v = ((d * 2) % 12) + 1
              ELSE style.v = "solid" /\ O[i].v = ((d * 2) % 12) + 2
           /\ O[i].v \in 1..12
           /\ O[i].v % 2 = (IF style.v = "filled" THEN 1 ELSE 0)

\* A solid cluster deep enough for the index to have wrapped around, below
\* a filled one.
C5_Witness ==
    LET e == Encl IN
    /\ \E i \in Lines("color") : TreeDepth(e[i]) >= 6 /\ O[i - 1].v = "solid"
    /\ \E i \in Lines("color") : O[i - 1].v = "filled" /\ onlySimpleRegions

\* C6: The cluster tree mirrors the region tree. No region's cluster is
\* opened twice; the cluster of the top-level region is opened while no
\* cluster is open and the cluster of any other region while the cluster of
\* its parent is the innermost open one; a finished render has opened a
\* cluster for every region.
C6_Mirror ==
    LET e == Encl IN
    /\ \A i \in Lines("subgraph"), j \in Lines("subgraph") : O[i].v = O[j].v => i = j
    /\ \A i \in Lines("subgraph") : O[i].v \in Regions /\ e[i] = parent[O[i].v]
    /\ phase = "done" => \A r \in Regions : \E i \in Lines("subgraph") : O[i].v = r

\* A finished render of a tree with a region two levels below the top-level
\* region, in a function of several blocks.
C6_Witness ==
    /\ phase = "done"
    /\ nb >= 2
    /\ \E r \in Regions : TreeDepth(r) >= 2

\* What C7 asks of a single state.
Total ==
    /\ ~err
    /\ epc = "while" => R # Null /\ BlockEdge
    /\ epc \in {"while", "returned"} /\ BlockEdge => climbs <= TreeDepth(regionFor[destBB])
    /\ Returned => attr \in {"", "constraint=false"}
    /\ Returned /\ BlockEdge => R # Null

\* C7: Totality of the edge classifier. No step dereferences a null region,
\* the while loop takes at most as many iterations as regionFor(dest) is
\* deep, the value returned is "" or "constraint=false", and no step
\* changes the region tree.
C7_Total == [][Total /\ Total' /\ tree' = tree]_vars

\* A call that climbed from a region two levels down all the way to the
\* top-level region and returned.
C7_Witness ==
    /\ Returned /\ BlockEdge
    /\ climbs >= 2
    /\ climbs = TreeDepth(regionFor[destBB])
    /\ R = TopLevelRegion

\* C8: Palette directive ordering. The colorscheme line is the first line
\* addCustomGraphFeatures writes and is written only once: it is line 1 of
\* the output as soon as the cluster phase has begun, and no other line is
\* a colorscheme line.
C8_Palette ==
    /\ \A i \in DOMAIN O : (O[i].k = "colorscheme") <=> (i = 1)
    /\ phase \in {"clusters", "done"} => Len(O) >= 1 /\ O[1].v = "paired12"

\* A finished render with more than one cluster.
C8_Witness ==
    /\ phase = "done"
    /\ Cardinality(Lines("color")) >= 2

\* C9: Contiguous ancestor chain. When getEdgeAttributes has returned for a
\* block-to-block edge, R is regionFor(dest) or one of its ancestors, every
\* region on the way from the parent of regionFor(dest) up to R has entry
\* dest, R is the top-level region or its parent's entry is not dest, and
\* the value is "constraint=false" exactly when R has entry dest and
\* contains the source block.
C9_Chain ==
    (Returned /\ BlockEdge) =>
        /\ R \in Regions
        /\ InSubtree(parent, R, regionFor[destBB])
        /\ \A a \in Regions :
              (a # regionFor[destBB] /\ InSubtree(parent, a, regionFor[destBB])
                 /\ InSubtree(parent, R, a)) => entry[a] = destBB
        /\ parent[R] = Null \/ entry[parent[R]] # destBB
        /\ (attr = "constraint=false") <=> (entry[R] = destBB /\ contains(R, srcBB))

\* A walk that climbed and then stopped below the top-level region, at an
\* ancestor whose parent has another entry block.
C9_Witness ==
    /\ Returned /\ BlockEdge
    /\ climbs >= 1
    /\ parent[R] # Null
    /\ entry[parent[R]] # destBB

\* C10: Soundness of suppression. When getEdgeAttributes has returned
\* "constraint=false", both nodes are block nodes and some region that is
\* regionFor(dest) or an ancestor of it has entry dest and contains both
\* the source block and dest.
C10_Sound ==
    (Returned /\ attr = "constraint=false") =>
        /\ BlockEdge
        /\ \E X \in Regions :
              /\ InSubtree(parent, X, regionFor[destBB])
              /\ entry[X] = destBB
              /\ contains(X, srcBB)
              /\ contains(X, destBB)

\* An edge marked non-constraining whose source lies in another region
\* than its destination, found after a climb.
C10_Witness ==
    /\ Returned /\ BlockEdge
    /\ attr = "constraint=false"
    /\ regionFor[srcBB] # regionFor[destBB]
    /\ R # regionFor[destBB]
====
